---- MODULE Spec2Model ----
(***************************************************************************)
(* Formatter orchestration of pants: the Black and pyupgrade `fmt` rules   *)
(* (backend/python/lint/{black,pyupgrade}/rules.py) run as stages of a     *)
(* formatter chain, and the eagerly initialised _Options wrapper           *)
(* (engine/internals/options_parsing.py).                                  *)
(*                                                                         *)
(* A rule is an async coroutine: every `await Get(...)` is a suspension    *)
(* point.  Each action below is the code of a rule between two suspension  *)
(* points; the answers of the engine's collaborators (pex building, source *)
(* snapshotting, config discovery, digest merge, process execution) are    *)
(* separate actions that draw the answer from a small set.                 *)
(***************************************************************************)
EXTENDS Integers, Sequences, FiniteSets, TLC

VARIABLES
    chain,          \* the configured formatter sequence (names of the plugins)
    skip,           \* black.skip / pyupgrade.skip
    black,          \* the Black subsystem's option values
    field_sets,     \* request.field_sets (the same units for every stage)
    stage,          \* index in chain of the stage being run
    prior_formatter_result, \* request.prior_formatter_result: <<>> is None
    pc,             \* position of the running rule
    gets,           \* the stage's Get requests: status and payload of each
    frame,          \* local variables of the running rules
    results,        \* the FmtResults produced so far, one per finished stage
    outcome,        \* "running", "done" or "failed" (an exception propagated)
    hist,           \* per stage: requests issued in order, exit code seen
    options_obj,    \* the _Options object: its fields, its memo, its state
    full_options_calls, \* number of full_options() calls made so far
    callers,        \* the threads evaluating `self.options`: 0 constructs
                    \* the object, the others run scope_options
    targets,        \* the build units offered to the plugins, by address
    selected        \* per plugin: the field sets made of the targets, if made

fmt_vars == <<chain, skip, black, field_sets, stage, prior_formatter_result, pc,
              gets, frame, results, outcome, hist>>
opt_vars == <<options_obj, full_options_calls, callers>>
sel_vars == <<targets, selected>>
vars == <<fmt_vars, opt_vars, sel_vars>>

(***************************************************************************)
(* Bounds.                                                                 *)
(***************************************************************************)
MaxChain == 2       \* longest formatter chain explored
NumReaders == 2     \* concurrent readers of _Options.options
MaxTargets == 2     \* build units offered to the target selector

(***************************************************************************)
(* Values.                                                                 *)
(***************************************************************************)
Plugins == {"black", "pyupgrade"}

\* Interpreter constraints are the sets of minor versions they admit.
Py38 == 38
interpreter_universe == {36, 37, 38}
AtLeast(v) == {u \in interpreter_universe : u >= v}

\* The build units of the request: source locator and compatibility field.
Units == { [source |-> "src/a.py", interpreter_constraints |-> AtLeast(38)],
           [source |-> "lib/b.py", interpreter_constraints |-> AtLeast(36)] }

\* A snapshot is a set of <<path, content>> pairs, one pair per path.
PathOrder == <<"lib/b.py", "pyproject.toml", "src/a.py">>
EMPTY_SNAPSHOT == {}
Paths(snapshot) == {p[1] : p \in snapshot}
\* Snapshot.files: the paths, sorted.
Files(snapshot) == SelectSeq(PathOrder, LAMBDA f : f \in Paths(snapshot))
DirOf(path) == CASE path = "src/a.py" -> "src"
                 [] path = "lib/b.py" -> "lib"
                 [] OTHER -> ""
\* Snapshot.dirs
Dirs(snapshot) == {DirOf(f) : f \in Paths(snapshot)}

\* Content on disk before the chain runs, and content a tool may write.
Unformatted == "x=1"
Formatted == "x = 1"
Rewrite(snapshot) == {<<p[1], Formatted>> : p \in snapshot}
DropFirst(snapshot) ==
    IF snapshot = {} THEN {}
    ELSE {p \in snapshot : p[1] # Head(Files(snapshot))}

\* Captured streams: bytes are wrapped token sequences, text is the sequence.
ChrootPrefix == "/tmp/process-executionAbC123/"
Bytes(tokens) == [bytes |-> tokens]
Quiet == Bytes(<<>>)
Noisy == Bytes(<<"reformatted ", ChrootPrefix, "src/a.py">>)

None == <<>>
Some(v) == <<v>>
Get0(opt) == opt[1]

(***************************************************************************)
(* Interpreter constraints and tool requests.                              *)
(***************************************************************************)
RECURSIVE IntersectAll(_)
IntersectAll(sets) ==
    IF sets = {} THEN interpreter_universe
    ELSE LET s == CHOOSE x \in sets : TRUE
         IN  s \cap IntersectAll(sets \ {s})

\* InterpreterConstraints.create_from_compatibility_fields: the constraints
\* every unit of the request accepts.
create_from_compatibility_fields(fields) == IntersectAll(fields)

\* InterpreterConstraints.requires_python38_or_newer(universe): no version of
\* the universe below 3.8 is admitted, and some version is.
requires_python38_or_newer(ics, universe) ==
    /\ ics \cap universe # {}
    /\ \A v \in ics \cap universe : v >= Py38

all_interpreter_constraints(fs) ==
    create_from_compatibility_fields({f.interpreter_constraints : f \in fs})

\* Mutant: the units' constraints win even over a configured tool constraint.
tool_interpreter_constraints_ignoring_default(fs) ==
    IF requires_python38_or_newer(all_interpreter_constraints(fs),
                                  interpreter_universe)
    THEN all_interpreter_constraints(fs)
    ELSE black.interpreter_constraints

tool_interpreter_constraints(fs) ==
    IF /\ black.is_default
       /\ requires_python38_or_newer(all_interpreter_constraints(fs),
                                     interpreter_universe)
    THEN all_interpreter_constraints(fs)
    ELSE black.interpreter_constraints

\* PythonToolBase.to_pex_request(interpreter_constraints=None): the given
\* constraints, or the tool's own when none are given.
to_pex_request(tool, declared, given) ==
    [tool |-> tool,
     interpreter_constraints |-> IF given = None THEN declared ELSE Get0(given)]

\* Mutant: the pex is requested without the resolved constraints.
black_pex_request_unresolved(tool_ics) ==
    to_pex_request("black", black.interpreter_constraints, None)

black_pex_request(tool_ics) ==
    to_pex_request("black", black.interpreter_constraints, Some(tool_ics))

\* The pyupgrade subsystem: default option values.
pyupgrade == [interpreter_constraints |-> AtLeast(36),
              args |-> <<"--py36-plus">>]

pyupgrade_pex_request ==
    to_pex_request("pyupgrade", pyupgrade.interpreter_constraints, None)

\* SourceFilesRequest(field_set.source for field_set in request.field_sets)
SourceFilesRequest(fs) == {f.source : f \in fs}

(***************************************************************************)
(* Snapshot choice, digest merge and process assembly.                     *)
(***************************************************************************)
\* Mutants: the fresh snapshot is used whatever the request carries.
setup_black_source_files_snapshot_fresh(source_files, prior) == source_files
run_pyupgrade_source_files_snapshot_fresh(source_files, prior) == source_files

setup_black_source_files_snapshot(source_files, prior) ==
    IF prior = None THEN source_files ELSE Get0(prior)

run_pyupgrade_source_files_snapshot(source_files, prior) ==
    IF prior = None THEN source_files ELSE Get0(prior)

\* MergeDigests: the paths on whose content the digests disagree.
MergeConflicts(d1, d2) ==
    {p[1] : p \in {q \in d1 : \E r \in d2 : r[1] = q[1] /\ r[2] # q[2]}}
\* MergeDigests: the union, when there is no conflict.
MergeDigests(d1, d2) == d1 \cup d2

\* Mutant: the hint is the number of files of the snapshot.
black_process_hint_files(pex, snapshot, input_digest, fs) ==
    [pex |-> pex,
     argv |-> (IF black.config # None THEN <<"--config", Get0(black.config)>>
               ELSE <<>>)
              \o <<"-W", "{pants_concurrency}">>
              \o black.args
              \o Files(snapshot),
     input_digest |-> input_digest,
     output_files |-> Files(snapshot),
     concurrency_available |-> Len(Files(snapshot))]

black_process(pex, snapshot, input_digest, fs) ==
    [pex |-> pex,
     argv |-> (IF black.config # None THEN <<"--config", Get0(black.config)>>
               ELSE <<>>)
              \o <<"-W", "{pants_concurrency}">>
              \o black.args
              \o Files(snapshot),
     input_digest |-> input_digest,
     output_files |-> Files(snapshot),
     concurrency_available |-> Cardinality(fs)]

pyupgrade_process(pex, source_files, snapshot) ==
    [pex |-> pex,
     argv |-> pyupgrade.args \o Files(source_files),
     input_digest |-> snapshot,
     output_files |-> Files(snapshot),
     concurrency_available |-> 0]

(***************************************************************************)
(* Results.                                                                *)
(***************************************************************************)
\* strip_v2_chroot_path: the text without the sandbox's path prefixes.
strip_v2_chroot_path(stream) ==
    SelectSeq(stream.bytes, LAMBDA t : t # ChrootPrefix)
\* bytes.decode()
decode(stream) == stream.bytes

\* Mutant: a result built from a process is flagged as skipped.
FmtResult_flagged_skipped(original, output, stdout, stderr, formatter_name) ==
    [original |-> original, output |-> output, stdout |-> stdout,
     stderr |-> stderr, formatter_name |-> formatter_name, skipped |-> TRUE]

FmtResult(original, output, stdout, stderr, formatter_name) ==
    [original |-> original, output |-> output, stdout |-> stdout,
     stderr |-> stderr, formatter_name |-> formatter_name, skipped |-> FALSE]

\* FmtResult.skip(formatter_name)
FmtResult_skip(formatter_name) ==
    [original |-> EMPTY_SNAPSHOT, output |-> EMPTY_SNAPSHOT, stdout |-> <<>>,
     stderr |-> <<>>, formatter_name |-> formatter_name, skipped |-> TRUE]

(***************************************************************************)
(* The state of one stage.                                                 *)
(***************************************************************************)
GetKinds == {"pex", "sources", "config", "merge", "process"}
NoGet == [status |-> "none", request |-> None, answer |-> None]
NoGets == [k \in GetKinds |-> NoGet]
NoFrame == [tool_interpreter_constraints |-> None,
            source_files_snapshot |-> None, process |-> None]
NoHist == [issued |-> <<>>, exit_code |-> -1, crashed |-> FALSE]

Issue(g, kind, request) ==
    [g EXCEPT ![kind] = [status |-> "pending", request |-> Some(request),
                         answer |-> None]]
Answer(g, kind, answer) ==
    [g EXCEPT ![kind].status = "done", ![kind].answer = Some(answer)]
Refuse(g, kind) == [g EXCEPT ![kind].status = "failed"]
Issued(kinds) == [hist EXCEPT ![stage].issued = @ \o kinds]

Running(plugin, at) ==
    /\ outcome = "running"
    /\ chain[stage] = plugin
    /\ pc = at

\* The formatter chain: a stage's result is handed on, its output snapshot
\* becoming the next request's prior_formatter_result.
Finish(result) ==
    /\ results' = Append(results, result)
    /\ prior_formatter_result' =
           IF result.skipped THEN prior_formatter_result
           ELSE Some(result.output)
    /\ outcome' = IF stage = Len(chain) THEN "done" ELSE "running"
    /\ stage' = IF stage = Len(chain) THEN stage ELSE stage + 1
    /\ pc' = "start"
    /\ gets' = NoGets
    /\ frame' = NoFrame

\* An exception leaves the rule and the chain: no result, no later stage.
Raise ==
    /\ outcome' = "failed"
    /\ pc' = "raised"
    /\ UNCHANGED <<results, prior_formatter_result, stage, gets, frame>>

Static == <<chain, skip, black, field_sets, opt_vars, sel_vars>>

(***************************************************************************)
(* The engine's collaborators answer the pending requests.                 *)
(***************************************************************************)
Pending(kind) == outcome = "running" /\ gets[kind].status = "pending"

\* Tool materialization: a VenvPex for the request, or no compatible runtime.
PexComplete(ok) ==
    /\ Pending("pex")
    /\ gets' = IF ok THEN Answer(gets, "pex", Get0(gets.pex.request))
               ELSE Refuse(gets, "pex")
    /\ UNCHANGED <<Static, stage, prior_formatter_result, pc, frame, results,
                   outcome, hist>>

\* Source snapshot: the requested sources as they are on disk, or not found.
SourceFilesComplete(ok) ==
    /\ Pending("sources")
    /\ gets' = IF ok
               THEN Answer(gets, "sources",
                           {<<f, Unformatted>> : f \in Get0(gets.sources.request)})
               ELSE Refuse(gets, "sources")
    /\ UNCHANGED <<Static, stage, prior_formatter_result, pc, frame, results,
                   outcome, hist>>

\* Config discovery never fails; it may find nothing.
ConfigAnswers == { {}, {<<"pyproject.toml", "[tool.black]">>},
                   {<<"src/a.py", "[tool.black]">>} }

ConfigFilesComplete(config) ==
    /\ Pending("config")
    /\ gets' = Answer(gets, "config", config)
    /\ UNCHANGED <<Static, stage, prior_formatter_result, pc, frame, results,
                   outcome, hist>>

\* Digest merge: the combined digest, or a conflict naming the paths.
MergeDigestsComplete ==
    /\ Pending("merge")
    /\ LET d == Get0(gets.merge.request)
       IN  gets' = IF MergeConflicts(d[1], d[2]) = {}
                   THEN Answer(gets, "merge", MergeDigests(d[1], d[2]))
                   ELSE [Refuse(gets, "merge") EXCEPT !["merge"].answer =
                            Some(MergeConflicts(d[1], d[2]))]
    /\ UNCHANGED <<Static, stage, prior_formatter_result, pc, frame, results,
                   outcome, hist>>

\* What the sandbox captures: the declared output files of the run.
Captured(process, sandbox) ==
    {p \in sandbox : \E i \in 1..Len(process.output_files) :
                        process.output_files[i] = p[1]}

ProcessAnswers(process) ==
    LET kept == Captured(process, process.input_digest)
    IN  { [exit_code |-> 0, stdout |-> Quiet, stderr |-> Quiet,
           output_digest |-> kept],
          [exit_code |-> 0, stdout |-> Quiet, stderr |-> Noisy,
           output_digest |-> Rewrite(kept)],
          [exit_code |-> 0, stdout |-> Noisy, stderr |-> Quiet,
           output_digest |-> DropFirst(kept)],
          [exit_code |-> 1, stdout |-> Noisy, stderr |-> Quiet,
           output_digest |-> Rewrite(kept)],
          [exit_code |-> 1, stdout |-> Quiet, stderr |-> Noisy,
           output_digest |-> kept] }

\* Process execution: the tool ran (whatever its exit code) ...
ProcessComplete ==
    /\ Pending("process")
    /\ \E answer \in ProcessAnswers(Get0(gets.process.request)) :
          /\ gets' = Answer(gets, "process", answer)
          /\ hist' = [hist EXCEPT ![stage].exit_code = answer.exit_code]
    /\ UNCHANGED <<Static, stage, prior_formatter_result, pc, frame, results,
                   outcome>>

\* ... or the sandbox failed (crash, timeout).
ProcessCrash ==
    /\ Pending("process")
    /\ gets' = Refuse(gets, "process")
    /\ hist' = [hist EXCEPT ![stage].crashed = TRUE]
    /\ UNCHANGED <<Static, stage, prior_formatter_result, pc, frame, results,
                   outcome>>

(***************************************************************************)
(* Black: black_fmt and the setup_black rule it awaits.                    *)
(***************************************************************************)
\* black_fmt up to `await Get(Setup, BlackRequest, request)`.
black_fmt ==
    /\ Running("black", "start")
    /\ IF skip["black"]
       THEN Finish(FmtResult_skip("black")) /\ UNCHANGED hist
       ELSE /\ pc' = "setup_black"
            /\ UNCHANGED <<stage, prior_formatter_result, gets, frame, results,
                           outcome, hist>>
    /\ UNCHANGED Static

\* setup_black up to `await MultiGet(source_files_get, black_pex_get)`.
setup_black ==
    /\ Running("black", "setup_black")
    /\ LET tool_ics == tool_interpreter_constraints(field_sets)
       IN  /\ frame' = [frame EXCEPT !.tool_interpreter_constraints =
                                        Some(tool_ics)]
           /\ gets' = Issue(Issue(gets, "pex", black_pex_request(tool_ics)),
                            "sources", SourceFilesRequest(field_sets))
    /\ hist' = Issued(<<"sources", "pex">>)
    /\ pc' = "setup_black_multiget"
    /\ UNCHANGED <<Static, stage, prior_formatter_result, results, outcome>>

\* Mutant: the config is requested as soon as the sources are there, the pex
\* being awaited after it.
setup_black_config_before_pex ==
    /\ Running("black", "setup_black_multiget")
    /\ gets.sources.status = "done"
    /\ gets.config.status = "none"
    /\ LET source_files_snapshot ==
               IF prior_formatter_result = None
               THEN Get0(gets.sources.answer)
               ELSE Get0(prior_formatter_result)
       IN  /\ frame' = [frame EXCEPT
                           !.source_files_snapshot = Some(source_files_snapshot)]
           /\ gets' = Issue(gets, "config", Dirs(source_files_snapshot))
    /\ hist' = Issued(<<"config">>)
    /\ pc' = "setup_black_config"
    /\ UNCHANGED <<Static, stage, prior_formatter_result, results, outcome>>

\* The MultiGet returned both values: choose the snapshot, ask for the config.
setup_black_config ==
    /\ Running("black", "setup_black_multiget")
    /\ gets.pex.status = "done" /\ gets.sources.status = "done"
    /\ LET source_files_snapshot ==
               setup_black_source_files_snapshot(Get0(gets.sources.answer),
                                                 prior_formatter_result)
       IN  /\ frame' = [frame EXCEPT
                           !.source_files_snapshot = Some(source_files_snapshot)]
           /\ gets' = Issue(gets, "config", Dirs(source_files_snapshot))
    /\ hist' = Issued(<<"config">>)
    /\ pc' = "setup_black_config"
    /\ UNCHANGED <<Static, stage, prior_formatter_result, results, outcome>>

\* The config files are known: merge them with the chosen snapshot.
setup_black_merge ==
    /\ Running("black", "setup_black_config")
    /\ gets.config.status = "done"
    /\ gets' = Issue(gets, "merge", <<Get0(frame.source_files_snapshot),
                                      Get0(gets.config.answer)>>)
    /\ hist' = Issued(<<"merge">>)
    /\ pc' = "setup_black_merge"
    /\ UNCHANGED <<Static, stage, prior_formatter_result, frame, results, outcome>>

\* Mutant: a failed merge is passed over, the sources alone being the input.
setup_black_process_despite_conflict ==
    /\ Running("black", "setup_black_merge")
    /\ gets.merge.status \in {"done", "failed"}
    /\ frame' = [frame EXCEPT !.process =
                    Some(black_process(Get0(gets.pex.answer),
                                       Get0(frame.source_files_snapshot),
                                       IF gets.merge.status = "done"
                                       THEN Get0(gets.merge.answer)
                                       ELSE Get0(frame.source_files_snapshot),
                                       field_sets))]
    /\ pc' = "black_fmt_setup"
    /\ UNCHANGED <<Static, stage, prior_formatter_result, gets, results, outcome,
                   hist>>

\* The input digest is known: build the process and return the Setup.
setup_black_process ==
    /\ Running("black", "setup_black_merge")
    /\ gets.merge.status = "done"
    /\ frame' = [frame EXCEPT !.process =
                    Some(black_process(Get0(gets.pex.answer),
                                       Get0(frame.source_files_snapshot),
                                       Get0(gets.merge.answer), field_sets))]
    /\ pc' = "black_fmt_setup"
    /\ UNCHANGED <<Static, stage, prior_formatter_result, gets, results, outcome,
                   hist>>

\* A request setup_black awaits failed: the exception leaves black_fmt too.
setup_black_raise ==
    /\ outcome = "running" /\ chain[stage] = "black"
    /\ \/ /\ pc = "setup_black_multiget"
          /\ "failed" \in {gets.pex.status, gets.sources.status}
       \/ /\ pc = "setup_black_merge"
          /\ gets.merge.status = "failed"
    /\ Raise
    /\ UNCHANGED <<Static, hist>>

\* black_fmt: `await Get(ProcessResult, Process, setup.process)`.
black_fmt_process ==
    /\ Running("black", "black_fmt_setup")
    /\ gets' = Issue(gets, "process", Get0(frame.process))
    /\ hist' = Issued(<<"process">>)
    /\ pc' = "black_fmt_process"
    /\ UNCHANGED <<Static, stage, prior_formatter_result, frame, results, outcome>>

\* Mutant: the result is awaited as a FallibleProcessResult.
ProcessResult_fallible(get) == get.status = "failed"

\* Get(ProcessResult, Process): a non-zero exit code raises
\* ProcessExecutionFailure, as a failed execution does.
ProcessResult_raises(get) ==
    \/ get.status = "failed"
    \/ get.status = "done" /\ Get0(get.answer).exit_code # 0

\* Mutant: the result reports the process's whole input digest, configuration
\* files included, as the original.
black_fmt_result_merged_original ==
    /\ Running("black", "black_fmt_process")
    /\ gets.process.status \in {"done", "failed"}
    /\ IF ProcessResult_raises(gets.process)
       THEN Raise
       ELSE LET result == Get0(gets.process.answer)
            IN  Finish(FmtResult(Get0(gets.process.request).input_digest,
                                 result.output_digest,
                                 strip_v2_chroot_path(result.stdout),
                                 strip_v2_chroot_path(result.stderr),
                                 "black"))
    /\ UNCHANGED <<Static, hist>>

\* Mutant: the result reports the snapshot the process was given as its output.
black_fmt_result_input_as_output ==
    /\ Running("black", "black_fmt_process")
    /\ gets.process.status \in {"done", "failed"}
    /\ IF ProcessResult_raises(gets.process)
       THEN Raise
       ELSE LET result == Get0(gets.process.answer)
            IN  Finish(FmtResult(Get0(frame.source_files_snapshot),
                                 Get0(frame.source_files_snapshot),
                                 strip_v2_chroot_path(result.stdout),
                                 strip_v2_chroot_path(result.stderr),
                                 "black"))
    /\ UNCHANGED <<Static, hist>>

\* Mutant: a failure of the process is swallowed and reported as a skip.
black_fmt_result_swallowing ==
    /\ Running("black", "black_fmt_process")
    /\ gets.process.status \in {"done", "failed"}
    /\ IF ProcessResult_raises(gets.process)
       THEN Finish(FmtResult_skip("black"))
       ELSE LET result == Get0(gets.process.answer)
            IN  Finish(FmtResult(Get0(frame.source_files_snapshot),
                                 result.output_digest,
                                 strip_v2_chroot_path(result.stdout),
                                 strip_v2_chroot_path(result.stderr),
                                 "black"))
    /\ UNCHANGED <<Static, hist>>

\* Mutant: a failed execution is issued once more before it is given up.
black_fmt_result_retrying ==
    /\ Running("black", "black_fmt_process")
    /\ gets.process.status \in {"done", "failed"}
    /\ IF ProcessResult_raises(gets.process)
       THEN IF Len(hist[stage].issued) < 6
            THEN /\ gets' = Issue(gets, "process", Get0(frame.process))
                 /\ hist' = Issued(<<"process">>)
                 /\ UNCHANGED <<stage, prior_formatter_result, pc, frame,
                                results, outcome>>
            ELSE Raise /\ UNCHANGED hist
       ELSE LET result == Get0(gets.process.answer)
            IN  /\ Finish(FmtResult(Get0(frame.source_files_snapshot),
                                    result.output_digest,
                                    strip_v2_chroot_path(result.stdout),
                                    strip_v2_chroot_path(result.stderr),
                                    "black"))
                /\ UNCHANGED hist
    /\ UNCHANGED Static

\* black_fmt from the process result to the FmtResult.
black_fmt_result ==
    /\ Running("black", "black_fmt_process")
    /\ gets.process.status \in {"done", "failed"}
    /\ IF ProcessResult_raises(gets.process)
       THEN Raise
       ELSE LET result == Get0(gets.process.answer)
            IN  Finish(FmtResult(Get0(frame.source_files_snapshot),
                                 result.output_digest,
                                 strip_v2_chroot_path(result.stdout),
                                 strip_v2_chroot_path(result.stderr),
                                 "black"))
    /\ UNCHANGED <<Static, hist>>

(***************************************************************************)
(* pyupgrade: pyupgrade_fmt takes the PyUpgradeResult as a parameter, so   *)
(* the engine runs run_pyupgrade to completion before pyupgrade_fmt's body *)
(* starts.                                                                 *)
(***************************************************************************)
\* run_pyupgrade up to `await MultiGet(source_files_get, pyupgrade_pex_get)`.
run_pyupgrade ==
    /\ Running("pyupgrade", "start")
    /\ gets' = Issue(Issue(gets, "pex", pyupgrade_pex_request),
                     "sources", SourceFilesRequest(field_sets))
    /\ hist' = Issued(<<"sources", "pex">>)
    /\ pc' = "run_pyupgrade_multiget"
    /\ UNCHANGED <<Static, stage, prior_formatter_result, frame, results, outcome>>

\* The MultiGet returned: choose the snapshot, await the process's result.
run_pyupgrade_process ==
    /\ Running("pyupgrade", "run_pyupgrade_multiget")
    /\ gets.pex.status = "done" /\ gets.sources.status = "done"
    /\ LET source_files == Get0(gets.sources.answer)
           source_files_snapshot ==
               run_pyupgrade_source_files_snapshot(source_files,
                                                   prior_formatter_result)
           process == pyupgrade_process(Get0(gets.pex.answer), source_files,
                                        source_files_snapshot)
       IN  /\ frame' = [frame EXCEPT
                           !.source_files_snapshot = Some(source_files_snapshot),
                           !.process = Some(process)]
           /\ gets' = Issue(gets, "process", process)
    /\ hist' = Issued(<<"process">>)
    /\ pc' = "run_pyupgrade_process"
    /\ UNCHANGED <<Static, stage, prior_formatter_result, results, outcome>>

\* A request run_pyupgrade awaits failed: pyupgrade_fmt never starts.
run_pyupgrade_raise ==
    /\ outcome = "running" /\ chain[stage] = "pyupgrade"
    /\ \/ /\ pc = "run_pyupgrade_multiget"
          /\ "failed" \in {gets.pex.status, gets.sources.status}
       \/ /\ pc = "run_pyupgrade_process"
          /\ gets.process.status = "failed"
    /\ Raise
    /\ UNCHANGED <<Static, hist>>

\* Get(FallibleProcessResult, ...): any exit code is a result.
\* run_pyupgrade returns PyUpgradeResult(result, original_snapshot).
run_pyupgrade_return ==
    /\ Running("pyupgrade", "run_pyupgrade_process")
    /\ gets.process.status = "done"
    /\ pc' = "pyupgrade_fmt"
    /\ UNCHANGED <<Static, stage, prior_formatter_result, gets, frame, results,
                   outcome, hist>>

\* pyupgrade_fmt's body.
pyupgrade_fmt ==
    /\ Running("pyupgrade", "pyupgrade_fmt")
    /\ IF skip["pyupgrade"]
       THEN Finish(FmtResult_skip("pyupgrade"))
       ELSE LET process_result == Get0(gets.process.answer)
            IN  Finish(FmtResult(Get0(frame.source_files_snapshot),
                                 process_result.output_digest,
                                 decode(process_result.stdout),
                                 decode(process_result.stderr),
                                 "pyupgrade"))
    /\ UNCHANGED <<Static, hist>>

(***************************************************************************)
(* _Options: `options` is a memoized property that __post_init__ touches.  *)
(* The memo is a lookup followed, on a miss, by the computation and the    *)
(* store; nothing makes the two one step.                                  *)
(***************************************************************************)
Constructor == 0
Readers == 1..NumReaders
Scopes == {"black", "pyupgrade"}
Bootstrappers == {"pants.toml", "pants.toml --black-skip"}
BuildConfigs == {"python-backends", "python-and-lint-backends"}

\* OptionsBootstrapper.full_options(build_config): a new Options object at
\* every call (Options has no useful equality).
full_options(bootstrapper, build_config, call) ==
    [id |-> call, values |-> <<bootstrapper, build_config>>]

NoCaller == [pc |-> "idle", scope |-> "", seen |-> None]

\* parse_options: `_Options(options_bootstrapper, build_config)` allocates
\* the object; the dataclass then runs __post_init__.
_Options_new ==
    /\ options_obj.state = "unallocated"
    /\ options_obj' = [options_obj EXCEPT !.state = "allocated"]
    /\ UNCHANGED <<fmt_vars, sel_vars, full_options_calls, callers>>

\* Mutant: __post_init__ does not touch the property.
_Options_post_init_lazy ==
    /\ options_obj.state = "allocated"
    /\ callers[Constructor].pc = "idle"
    /\ callers' = [callers EXCEPT ![Constructor].pc = "done"]
    /\ UNCHANGED <<fmt_vars, sel_vars, options_obj,
                   full_options_calls>>

\* __post_init__: `assert self.options is not None`.
_Options_post_init ==
    /\ options_obj.state = "allocated"
    /\ callers[Constructor].pc = "idle"
    /\ callers' = [callers EXCEPT ![Constructor].pc = "lookup"]
    /\ UNCHANGED <<fmt_vars, sel_vars, options_obj,
                   full_options_calls>>

\* The memoized getter: return the stored value, or go and compute it.
options_lookup(c) ==
    /\ callers[c].pc = "lookup"
    /\ callers' = [callers EXCEPT
                      ![c].pc = IF options_obj.memo = None THEN "miss" ELSE "done",
                      ![c].seen = options_obj.memo]
    /\ UNCHANGED <<fmt_vars, sel_vars, options_obj,
                   full_options_calls>>

\* `options`: full_options is called and its value stored in the memo.
options ==
    \E c \in DOMAIN callers :
        /\ callers[c].pc = "miss"
        /\ LET value == full_options(options_obj.options_bootstrapper,
                                     options_obj.build_config,
                                     full_options_calls + 1)
           IN  /\ options_obj' = [options_obj EXCEPT !.memo = Some(value)]
               /\ callers' = [callers EXCEPT ![c].pc = "done",
                                             ![c].seen = Some(value)]
        /\ full_options_calls' = full_options_calls + 1
        /\ UNCHANGED <<fmt_vars, sel_vars>>

\* __post_init__ returned: parse_options returns the object to the engine.
parse_options ==
    /\ options_obj.state = "allocated"
    /\ callers[Constructor].pc = "done"
    /\ options_obj' = [options_obj EXCEPT !.state = "constructed"]
    /\ UNCHANGED <<fmt_vars, sel_vars, full_options_calls, callers>>

\* scope_options(scope, options): reads options.options.
scope_options(r, scope) ==
    /\ options_obj.state = "constructed"
    /\ callers[r].pc = "idle"
    /\ callers' = [callers EXCEPT ![r].pc = "lookup", ![r].scope = scope]
    /\ UNCHANGED <<fmt_vars, sel_vars, options_obj,
                   full_options_calls>>

\* ScopedOptions(scope, options.options.for_scope(scope.scope))
ScopedOptions(c) ==
    [scope |-> callers[c].scope,
     options |-> <<Get0(callers[c].seen).id, callers[c].scope>>]

(***************************************************************************)
(* Target selection: a plugin's field set type names the fields a target   *)
(* must have and the field that opts a target out.                         *)
(***************************************************************************)
Addresses == 1..MaxTargets
SkipFields == {"SkipBlackField", "SkipPyUpgradeField"}
Fields == {"PythonSourceField", "InterpreterConstraintsField"} \cup SkipFields

\* A target: the fields its type declares, and those of its skip fields
\* that are set.  A skip field that is not declared has its default, False.
Targets ==
    { t \in [declares : SUBSET (Fields \ {"InterpreterConstraintsField"}),
             skip : SUBSET SkipFields] : t.skip \subseteq t.declares }

\* Target.has_fields
has_fields(tgt, required) == required \subseteq tgt.declares
\* tgt.get(field).value, for a skip field
get_value(tgt, field) == field \in tgt.skip

BlackFieldSet_required_fields == {"PythonSourceField"}
PyUpgradeFieldSet_required_fields == {"PythonSourceField"}

\* Mutant: the opt-out reads the other plugin's skip field.
BlackFieldSet_opt_out_of_pyupgrade(tgt) == get_value(tgt, "SkipPyUpgradeField")

BlackFieldSet_opt_out(tgt) == get_value(tgt, "SkipBlackField")
PyUpgradeFieldSet_opt_out(tgt) == get_value(tgt, "SkipPyUpgradeField")

required_fields(plugin) ==
    IF plugin = "black" THEN BlackFieldSet_required_fields
    ELSE PyUpgradeFieldSet_required_fields
opt_out(plugin, tgt) ==
    IF plugin = "black" THEN BlackFieldSet_opt_out(tgt)
    ELSE PyUpgradeFieldSet_opt_out(tgt)

\* FieldSet.is_applicable
is_applicable(plugin, tgt) ==
    has_fields(tgt, required_fields(plugin)) /\ ~opt_out(plugin, tgt)

\* FieldSet.create: the projection of a target the plugin works on.
FieldSet_create(plugin, address) ==
    [field_set_type |-> plugin, address |-> address]

NotSelected == [made |-> FALSE, field_sets |-> {}]

\* The field sets of a plugin's request: one per applicable target.
select(plugin) ==
    /\ ~selected[plugin].made
    /\ selected' = [selected EXCEPT ![plugin] =
           [made |-> TRUE,
            field_sets |-> {FieldSet_create(plugin, a) :
                               a \in {b \in DOMAIN targets :
                                         is_applicable(plugin, targets[b])}}]]
    /\ UNCHANGED <<fmt_vars, opt_vars, targets>>

SelIdle ==
    /\ targets = [a \in Addresses |-> [declares |-> {}, skip |-> {}]]
    /\ selected = [p \in Plugins |-> NotSelected]

(***************************************************************************)
(* Specifications.                                                         *)
(***************************************************************************)
BlackOptions ==
    { [is_default |-> TRUE, interpreter_constraints |-> AtLeast(36),
       config |-> None, args |-> <<>>],
      [is_default |-> FALSE, interpreter_constraints |-> AtLeast(36),
       config |-> Some("pyproject.toml"), args |-> <<"--fast">>],
      [is_default |-> FALSE, interpreter_constraints |-> {37},
       config |-> None, args |-> <<>>] }

Chains == UNION {[1..n -> Plugins] : n \in 1..MaxChain}

OptIdle ==
    /\ options_obj = [options_bootstrapper |-> "pants.toml",
                      build_config |-> "python-backends",
                      memo |-> None, state |-> "unallocated"]
    /\ full_options_calls = 0
    /\ callers = [c \in {Constructor} \cup Readers |-> NoCaller]

Init ==
    /\ chain \in Chains
    /\ skip \in [Plugins -> BOOLEAN]
    /\ black \in BlackOptions
    /\ field_sets \in SUBSET Units \ {{}}
    /\ stage = 1
    /\ prior_formatter_result = None
    /\ pc = "start"
    /\ gets = NoGets
    /\ frame = NoFrame
    /\ results = <<>>
    /\ outcome = "running"
    /\ hist = [k \in 1..Len(chain) |-> NoHist]
    /\ OptIdle
    /\ SelIdle

Next ==
    \/ black_fmt
    \/ setup_black
    \/ setup_black_config
    \/ setup_black_merge
    \/ setup_black_process
    \/ setup_black_raise
    \/ black_fmt_process
    \/ black_fmt_result
    \/ run_pyupgrade
    \/ run_pyupgrade_process
    \/ run_pyupgrade_raise
    \/ run_pyupgrade_return
    \/ pyupgrade_fmt
    \/ \E ok \in BOOLEAN : PexComplete(ok)
    \/ \E ok \in BOOLEAN : SourceFilesComplete(ok)
    \/ \E config \in ConfigAnswers : ConfigFilesComplete(config)
    \/ MergeDigestsComplete
    \/ ProcessComplete
    \/ ProcessCrash

Spec == Init /\ [][Next]_vars

\* The options object alone, under one fixed formatter configuration.
OptInit ==
    /\ chain = <<"black">>
    /\ skip = [p \in Plugins |-> FALSE]
    /\ black = CHOOSE b \in BlackOptions : b.is_default
    /\ field_sets = Units
    /\ stage = 1
    /\ prior_formatter_result = None
    /\ pc = "start"
    /\ gets = NoGets
    /\ frame = NoFrame
    /\ results = <<>>
    /\ outcome = "running"
    /\ hist = <<NoHist>>
    /\ options_obj \in [options_bootstrapper : Bootstrappers,
                        build_config : BuildConfigs,
                        memo : {None}, state : {"unallocated"}]
    /\ full_options_calls = 0
    /\ callers = [c \in {Constructor} \cup Readers |-> NoCaller]
    /\ SelIdle

OptNext ==
    \/ _Options_new
    \/ _Options_post_init
    \/ \E c \in DOMAIN callers : options_lookup(c)
    \/ options
    \/ parse_options
    \/ \E r \in Readers, scope \in Scopes : scope_options(r, scope)

OptSpec == OptInit /\ [][OptNext]_vars

\* The target selector alone, under one fixed formatter configuration.
FmtIdle ==
    /\ chain = <<"black">>
    /\ skip = [p \in Plugins |-> FALSE]
    /\ black = CHOOSE b \in BlackOptions : b.is_default
    /\ field_sets = Units
    /\ stage = 1
    /\ prior_formatter_result = None
    /\ pc = "start"
    /\ gets = NoGets
    /\ frame = NoFrame
    /\ results = <<>>
    /\ outcome = "running"
    /\ hist = <<NoHist>>

SelInit ==
    /\ FmtIdle
    /\ OptIdle
    /\ targets \in [Addresses -> Targets]
    /\ selected = [p \in Plugins |-> NotSelected]

SelNext == \E plugin \in Plugins : select(plugin)

SelSpec == SelInit /\ [][SelNext]_vars

(***************************************************************************)
(* Properties.                                                             *)
(***************************************************************************)
Range(seq) == {seq[i] : i \in 1..Len(seq)}
Stages == 1..Len(chain)
Finished == 1..Len(results)
\* The snapshot of the request's sources before any formatter ran.
OnDisk == {<<f, Unformatted>> : f \in SourceFilesRequest(field_sets)}
\* The intersection of the selected units' constraints.
UnitConstraint ==
    {v \in interpreter_universe :
        \A f \in field_sets : v \in f.interpreter_constraints}
RequiresThreshold ==
    UnitConstraint # {} /\ \A v \in UnitConstraint : v >= Py38
\* The snapshot a stage has to work on: the prior one if the request has one.
Chosen ==
    IF prior_formatter_result = None THEN Get0(gets.sources.answer)
    ELSE Get0(prior_formatter_result)
\* The file paths of an argument vector: what follows the options.
ArgvFiles(plugin, argv) ==
    LET options_len ==
            IF plugin = "black"
            THEN (IF black.config # None THEN 2 ELSE 0) + 2 + Len(black.args)
            ELSE Len(pyupgrade.args)
    IN  SubSeq(argv, options_len + 1, Len(argv))

\* C1: a plugin whose skip flag is set returns a skipped result, and neither
\* builds a process nor issues a process-execution request.  (Stated as
\* claimed; pyupgrade violates it.)
C1_SkipShortCircuit ==
    \A k \in Stages :
        skip[chain[k]] =>
            /\ k \in Finished => results[k].skipped
            /\ "process" \notin Range(hist[k].issued)
            /\ (k = stage => frame.process = None)

C2_ChainedOriginal ==
    \A k \in Finished :
        ~results[k].skipped =>
            /\ (k > 1 /\ ~results[k - 1].skipped)
                  => results[k].original = results[k - 1].output
            /\ (\A j \in 1..(k - 1) : results[j].skipped)
                  => results[k].original = OnDisk

C2_NewResult ==
    (Len(results') = Len(results) + 1 /\ ~results'[Len(results')].skipped)
        => /\ results'[Len(results')].output
                 = Get0(gets.process.answer).output_digest
           /\ prior_formatter_result' = Some(results'[Len(results')].output)

C4_RuntimeResolution ==
    frame.tool_interpreter_constraints # None =>
        LET effective == Get0(frame.tool_interpreter_constraints)
        IN  /\ (black.is_default /\ RequiresThreshold)
                  => effective = UnitConstraint
            /\ ~black.is_default => effective = black.interpreter_constraints
            /\ ~RequiresThreshold => effective = black.interpreter_constraints

C4_Witness ==
    /\ frame.tool_interpreter_constraints # None
    /\ ~black.is_default
    /\ RequiresThreshold
    /\ UnitConstraint \cap black.interpreter_constraints = {}

\* C5: the tool materialization request carries exactly the effective
\* constraint: for Black the resolved one (>=3.8 for units needing >=3.8 and
\* >=3.6 under the default >=3.6), for pyupgrade, which resolves nothing,
\* the declared one.
C5_PexRequestConstraint ==
    gets.pex.status # "none" =>
        LET requested == Get0(gets.pex.request).interpreter_constraints
        IN  /\ chain[stage] = "black"
                  => /\ requested = Get0(frame.tool_interpreter_constraints)
                     /\ (field_sets = Units /\ black.is_default
                         /\ black.interpreter_constraints = AtLeast(36))
                           => requested = AtLeast(38)
            /\ chain[stage] = "pyupgrade"
                  => requested = pyupgrade.interpreter_constraints

C5_Witness ==
    /\ gets.pex.status = "done"
    /\ chain[stage] = "black"
    /\ field_sets = Units
    /\ black.is_default
    /\ Get0(gets.pex.answer).interpreter_constraints = AtLeast(38)

\* C6: the snapshot behind the process's input digest, the config request
\* and the declared output files is the prior snapshot when the request
\* carries one, and the freshly captured one otherwise.
C6_PriorSupersedes ==
    /\ gets.config.status # "none" => Get0(gets.config.request) = Dirs(Chosen)
    /\ gets.merge.status # "none" => Get0(gets.merge.request)[1] = Chosen
    /\ frame.process # None =>
          LET process == Get0(frame.process)
          IN  /\ process.output_files = Files(Chosen)
              /\ process.input_digest =
                    IF chain[stage] = "black"
                    THEN Chosen \cup Get0(gets.config.answer)
                    ELSE Chosen

C6_Witness ==
    /\ frame.process # None
    /\ gets.process.status = "pending"
    /\ prior_formatter_result # None
    /\ Files(Get0(prior_formatter_result)) # Files(Get0(gets.sources.answer))
    /\ Get0(frame.process).output_files = Files(Get0(prior_formatter_result))

\* C7: setup_black issues the pex request and the source request together,
\* the config request only once both have completed, and the merge request
\* only once the config request has completed.
C7_AcquisitionOrder ==
    chain[stage] = "black" =>
        /\ gets.pex.status = "none" <=> gets.sources.status = "none"
        /\ gets.config.status # "none"
              => gets.pex.status = "done" /\ gets.sources.status = "done"
        /\ gets.merge.status # "none" => gets.config.status = "done"
        /\ hist[stage].issued \in
              { <<>>, <<"sources", "pex">>, <<"sources", "pex", "config">>,
                <<"sources", "pex", "config", "merge">>,
                <<"sources", "pex", "config", "merge", "process">> }

\* The two completion orders of the concurrent requests.
C7_SourcesFirst ==
    /\ chain[stage] = "black"
    /\ gets.sources.status = "done" /\ gets.pex.status = "pending"
C7_PexFirst ==
    /\ chain[stage] = "black"
    /\ gets.pex.status = "done" /\ gets.sources.status = "pending"

\* C8: full_options is called once, while the _Options object is being
\* constructed; every reader of the constructed object finds the stored
\* value and none computes it.
C8_EagerOptions ==
    /\ full_options_calls <= 1
    /\ \A r \in Readers : callers[r].pc # "miss"
    /\ options_obj.state = "constructed" =>
          /\ full_options_calls = 1
          /\ options_obj.memo # None
          /\ \A c \in DOMAIN callers :
                callers[c].pc = "done" => callers[c].seen = options_obj.memo
          /\ \A r1, r2 \in Readers :
                (callers[r1].pc = "done" /\ callers[r2].pc = "done")
                    => ScopedOptions(r1).options[1] = ScopedOptions(r2).options[1]

C8_Witness ==
    /\ options_obj.state = "constructed"
    /\ \A r \in Readers : callers[r].pc = "done"
    /\ \E r1, r2 \in Readers : callers[r1].scope # callers[r2].scope

\* C9: an invocation of a plugin whose skip flag is set never ends in an
\* error.  (Stated as claimed; pyupgrade violates it.)
C9_SkippedNeverFails ==
    outcome = "failed" => ~skip[chain[stage]]

\* C10: the file paths that end the argument vector of a process are its
\* declared output files.  (Stated as claimed; pyupgrade violates it.)
C10_ArgvFilesAreOutputFiles ==
    frame.process # None =>
        ArgvFiles(chain[stage], Get0(frame.process).argv)
            = Get0(frame.process).output_files

C12_TargetSelection ==
    \A plugin \in Plugins :
        selected[plugin].made =>
            \A a \in Addresses :
                (\E fs \in selected[plugin].field_sets : fs.address = a)
                    <=> /\ "PythonSourceField" \in targets[a].declares
                        /\ (IF plugin = "black" THEN "SkipBlackField"
                            ELSE "SkipPyUpgradeField") \notin targets[a].skip

C12_Witness ==
    /\ selected["black"].made /\ selected["pyupgrade"].made
    /\ \E a \in Addresses :
          /\ targets[a].skip = {"SkipBlackField"}
          /\ "PythonSourceField" \in targets[a].declares
          /\ \E fs \in selected["pyupgrade"].field_sets : fs.address = a
          /\ \A fs \in selected["black"].field_sets : fs.address # a
    /\ selected["black"].field_sets # {}

\* C13: a FmtResult with skipped = true has its original equal to its
\* final snapshot and both of its streams empty.
C13_SkippedResult ==
    \A k \in Finished :
        results[k].skipped =>
            /\ results[k].original = results[k].output
            /\ results[k].stdout = <<>>
            /\ results[k].stderr = <<>>

C13_Witness ==
    /\ \E k \in Finished :
          /\ results[k].skipped
          /\ chain[k] = "pyupgrade"
          /\ hist[k].exit_code = 1
    /\ \E k \in Finished : results[k].skipped /\ chain[k] = "black"

\* The paths two snapshots both define, with different content.
Disagree(d1, d2) ==
    {f \in Paths(d1) \cap Paths(d2) :
        \E p \in d1, q \in d2 : p[1] = f /\ q[1] = f /\ p[2] # q[2]}

\* C14: the merge of the chosen snapshot and the config snapshot fails,
\* naming the path, whenever both define a path with different content, and
\* then no process is built or executed; otherwise it succeeds and yields
\* the union of the two.
C14_MergeConflict ==
    /\ gets.merge.status \in {"done", "failed"} =>
          LET d == Get0(gets.merge.request)
          IN  /\ d[1] = Get0(frame.source_files_snapshot)
              /\ d[2] = Get0(gets.config.answer)
              /\ gets.merge.status = "failed" <=> Disagree(d[1], d[2]) # {}
              /\ gets.merge.status = "failed"
                    => /\ Get0(gets.merge.answer) = Disagree(d[1], d[2])
                       /\ frame.process = None
                       /\ "process" \notin Range(hist[stage].issued)
                       /\ stage \notin Finished
              /\ gets.merge.status = "done"
                    => /\ Get0(gets.merge.answer) = d[1] \cup d[2]
                       /\ \A p \in d[1] \cup d[2] : p \in Get0(gets.merge.answer)
    /\ (chain[stage] = "black" /\ frame.process # None)
          => /\ gets.merge.status = "done"
             /\ Get0(frame.process).input_digest = Get0(gets.merge.answer)

C14_Witness ==
    /\ gets.merge.status = "failed"
    /\ Get0(gets.merge.answer) = {"src/a.py"}
    /\ outcome = "failed"
    /\ stage = 2

\* A merge of snapshots with disjoint paths has succeeded.
C14_DisjointMerged ==
    /\ gets.merge.status = "done"
    /\ Get0(gets.merge.request)[2] # {}
    /\ Paths(Get0(gets.merge.request)[1]) \cap Paths(Get0(gets.merge.request)[2]) = {}

\* The number of requests of a kind among those a stage issued.
IssuedCount(k, kind) ==
    Cardinality({i \in 1..Len(hist[k].issued) : hist[k].issued[i] = kind})

\* C15: a plugin invocation issues at most one process-execution request,
\* whatever the outcome of the execution.
C15_NoRetry ==
    \A k \in Stages :
        /\ IssuedCount(k, "process") <= 1
        /\ (hist[k].exit_code >= 0 \/ hist[k].crashed)
              => IssuedCount(k, "process") = 1

C15_Witness ==
    /\ Len(chain) = 2
    /\ chain[1] = "pyupgrade" /\ hist[1].exit_code = 1
    /\ chain[2] = "black" /\ hist[2].crashed
    /\ outcome = "failed"
    /\ IssuedCount(1, "process") = 1 /\ IssuedCount(2, "process") = 1

\* The snapshot the chain stands at after its first n stages: the output of
\* the last of them that produced one.
RECURSIVE LastOutput(_)
LastOutput(n) ==
    IF n = 0 THEN None
    ELSE IF results[n].skipped THEN LastOutput(n - 1)
    ELSE Some(results[n].output)

C17_StagesInOrder ==
    /\ stage = IF outcome = "done" THEN Len(results) ELSE Len(results) + 1
    /\ \A j \in Stages : hist[j].issued # <<>> => j <= stage
    /\ \A kind \in GetKinds :
          gets[kind].status # "none" => hist[stage].issued # <<>>
    /\ (stage > 1 /\ stage > Len(results) /\ ~results[stage - 1].skipped)
          => prior_formatter_result = Some(results[stage - 1].output)

\* A stage issues a request only once all stages before it have finished,
\* and a stage's output snapshot, the snapshot of its process's output
\* digest, is what the next request carries.
C17_Step ==
    /\ \A j \in Stages :
          hist'[j].issued # hist[j].issued
              => /\ j = stage
                 /\ Len(results) = j - 1
                 /\ prior_formatter_result = LastOutput(j - 1)
                 /\ prior_formatter_result' = prior_formatter_result
    /\ (Len(results') = Len(results) + 1 /\ ~results'[Len(results')].skipped)
          => prior_formatter_result'
                = Some(Get0(gets.process.answer).output_digest)

\* C17: within a chain, plugin k+1 issues none of its requests before
\* plugin k's FmtResult is there, and the prior result snapshot its request
\* carries is plugin k's output snapshot.
C17_ChainOrdering == [](C17_StagesInOrder) /\ [][C17_Step]_vars

C17_Witness ==
    /\ stage = 2
    /\ gets.pex.status = "pending" /\ gets.sources.status = "done"
    /\ ~results[1].skipped
    /\ results[1].output # results[1].original
    /\ prior_formatter_result = Some(results[1].output)

\* C18: the stdout and stderr of every non-skipped FmtResult, of whichever
\* plugin, hold no sandbox path prefix.
C18_DiagnosticsStripped ==
    \A k \in Finished :
        ~results[k].skipped
            => ChrootPrefix \notin
                   (Range(results[k].stdout) \cup Range(results[k].stderr))

\* The paths only a configuration file can have: those of no source unit.
ConfigPaths ==
    UNION {Paths(config) : config \in ConfigAnswers}
        \ {unit.source : unit \in Units}

\* While a stage's process request is out, its input digest is the chosen
\* snapshot, with the configuration files merged in for Black, and its output
\* files are the chosen snapshot's files.
C19_ProcessInput ==
    gets.process.status # "none"
        => LET process  == Get0(gets.process.request)
               snapshot == Get0(frame.source_files_snapshot)
           IN  /\ snapshot = Chosen
               /\ process.output_files = Files(snapshot)
               /\ process.input_digest =
                      IF chain[stage] = "black"
                      THEN MergeDigests(snapshot, Get0(gets.config.answer))
                      ELSE snapshot

\* A new non-skipped result reports the chosen snapshot as its original: the
\* prior result snapshot when the request carries one, and never a
\* configuration file.
C19_NewOriginal ==
    (Len(results') = Len(results) + 1 /\ ~results'[Len(results')].skipped)
        => LET original == results'[Len(results')].original
           IN  /\ original = Chosen
               /\ original = Get0(frame.source_files_snapshot)
               /\ prior_formatter_result # None
                      => original = Get0(prior_formatter_result)
               /\ Paths(original) \cap ConfigPaths = {}
               /\ original \subseteq Get0(gets.process.request).input_digest

\* C19: the original of every non-skipped FmtResult is the snapshot the tool
\* process was given as its sources in that stage, without the merged
\* configuration files; in a later stage it is the prior result snapshot.
C19_OriginalIsChosen == [](C19_ProcessInput) /\ [][C19_NewOriginal]_vars

C19_Witness ==
    /\ Len(results) = 2
    /\ chain[2] = "black" /\ black.config # None
    /\ ~results[1].skipped /\ ~results[2].skipped
    /\ results[1].output # results[1].original
    /\ results[2].original = results[1].output

====
